---- MODULE Spec2Model ----
(***************************************************************************)
(* Model of src/src/dukascopy/aggregator.js: the timeframe parser, the     *)
(* bucketizer, aggregateTicksToBars, resampleBars and                      *)
(* calculateTickStatistics; and of fetchTickData, processTickData and      *)
(* saveData of the tick fetcher (src/unnamed/part_000).                    *)
(*                                                                         *)
(* Encoding of JavaScript values                                           *)
(*   - an object is a record; a property the object lacks is a field the   *)
(*     record lacks (Has);                                                 *)
(*   - a Date, and the number getTime() returns, is <<ms>> for a valid     *)
(*     instant and <<>> for Invalid Date / NaN.  Every valid Date lies     *)
(*     within +-8.64e15 ms, so time arithmetic is exact in doubles and is  *)
(*     modelled on the integers;                                           *)
(*   - prices, volumes and spreads are doubles.  They are modelled by a    *)
(*     binary floating-point format scaled down to MantBits significant    *)
(*     bits and quantum 1, round-to-nearest, ties-to-even (Fl);            *)
(*   - a timeframe token is the sequence of its characters.                *)
(***************************************************************************)
EXTENDS Integers, Sequences, FiniteSets, TLC

VARIABLES
    input,            \* the caller's array object (its current contents)
    before,           \* the contents of that array when the call was made
    origin,           \* <<>> or <<[ticks, timeframe]>>: the aggregateTicksToBars call whose result is input
    fn,               \* the function called
    timeframe,        \* the timeframe argument
    pc,               \* "idle" | "loop" | "returned" | "threw"
    intervalMinutes,  \* the local intervalMinutes / targetMinutes
    idx,              \* position of the for-of loop in the array (1-based)
    currentBar,       \* <<>> for null, <<bar>> for the open aggregate
    bars,             \* the local bars / resampledBars
    ret,              \* the value returned
    returns,          \* the local returns of calculateTickStatistics
    original,         \* the contents of the array when the caller built it
    fetch,            \* the fetchTickData call: its position, locals and outcome
    multi             \* the fetchMultipleInstruments call: its position and locals

vars == <<input, before, origin, fn, timeframe, pc, intervalMinutes, idx, currentBar,
          bars, ret, returns, original, fetch, multi>>

(***************************************************************************)
(* Bounds                                                                  *)
(***************************************************************************)
MaxLen == 3
MantBits == 8

(***************************************************************************)
(* JavaScript helpers                                                      *)
(***************************************************************************)
Range(seq) == { seq[k] : k \in 1..Len(seq) }
Has(obj, f) == f \in DOMAIN obj

\* value || dflt on a numeric property: undefined, null and 0 are falsy
OrDefault(obj, f, dflt) == IF Has(obj, f) /\ obj[f] # 0 THEN obj[f] ELSE dflt

Date(ms) == <<ms>>
InvalidDate == <<>>
IsValidDate(d) == Len(d) = 1

\* a !== b on two getTime() results: NaN differs from everything, itself included
StrictNotEqual(a, b) == \/ ~IsValidDate(a)
                        \/ ~IsValidDate(b)
                        \/ a[1] # b[1]

Max(a, b) == IF a >= b THEN a ELSE b
Min(a, b) == IF a <= b THEN a ELSE b
Abs(x) == IF x < 0 THEN 0 - x ELSE x

RECURSIVE Pow2(_)
Pow2(n) == IF n = 0 THEN 1 ELSE 2 * Pow2(n - 1)

\* the quantum of the binade that holds the magnitude m
RECURSIVE Quantum(_, _)
Quantum(m, q) == IF m < q * Pow2(MantBits) THEN q ELSE Quantum(m, 2 * q)

\* round-to-nearest, ties-to-even, of the integer x to MantBits significant bits
Fl(x) ==
    LET m    == Abs(x)
        q    == Quantum(m, 1)
        r    == m % q
        down == m - r
        up   == down + q
        near == IF 2 * r < q THEN down
                ELSE IF 2 * r > q THEN up
                ELSE IF (down \div q) % 2 = 0 THEN down ELSE up
    IN  IF x < 0 THEN 0 - near ELSE near

\* the quotient x / n (n > 0) rounded to the nearest integer, ties to even
RoundDiv(x, n) ==
    LET m    == Abs(x)
        d    == m \div n
        r    == m % n
        near == IF 2 * r < n THEN d
                ELSE IF 2 * r > n THEN d + 1
                ELSE IF d % 2 = 0 THEN d ELSE d + 1
    IN  IF x < 0 THEN 0 - near ELSE near

FAdd(a, b) == Fl(a + b)
FSub(a, b) == Fl(a - b)
FMul(a, b) == Fl(a * b)
FDiv(a, n) == Fl(RoundDiv(a, n))

(***************************************************************************)
(* Exact arithmetic: the extended rationals.  <<n, d>> with d > 0 is n/d   *)
(* in lowest terms; <<1, 0>> and <<-1, 0>> are +Infinity and -Infinity;    *)
(* <<0, 0>> is NaN.  Division by zero gives what IEEE-754 gives, up to the *)
(* sign of zero, which is not tracked (a zero divisor gives +-Infinity by  *)
(* the sign of the dividend).                                              *)
(***************************************************************************)
RECURSIVE GCD(_, _)
GCD(a, b) == IF b = 0 THEN a ELSE GCD(b, a % b)

Sign(x) == IF x > 0 THEN 1 ELSE IF x < 0 THEN 0 - 1 ELSE 0

QNaN == <<0, 0>>
QInt(n) == <<n, 1>>
QIsNaN(a) == a = QNaN
QIsInf(a) == a[2] = 0 /\ a[1] # 0
QIsFinite(a) == a[2] # 0

\* n/d in lowest terms
QNorm(n, d) ==
    IF d = 0 THEN <<Sign(n), 0>>
    ELSE LET g == GCD(Abs(n), Abs(d))
         IN  IF d < 0 THEN <<(0 - n) \div g, (0 - d) \div g>> ELSE <<n \div g, d \div g>>

QNeg(a) == <<0 - a[1], a[2]>>

QAdd(a, b) ==
    IF QIsNaN(a) \/ QIsNaN(b) THEN QNaN
    ELSE IF QIsInf(a) /\ QIsInf(b) THEN (IF a = b THEN a ELSE QNaN)
    ELSE IF QIsInf(a) THEN a
    ELSE IF QIsInf(b) THEN b
    ELSE LET g == GCD(a[2], b[2])
         IN  QNorm(a[1] * (b[2] \div g) + b[1] * (a[2] \div g), (a[2] \div g) * b[2])

QSub(a, b) == QAdd(a, QNeg(b))

QMul(a, b) ==
    IF QIsNaN(a) \/ QIsNaN(b) THEN QNaN
    ELSE IF QIsInf(a) \/ QIsInf(b) THEN <<Sign(a[1]) * Sign(b[1]), 0>>
    ELSE LET g1 == GCD(Abs(a[1]), b[2])
             g2 == GCD(Abs(b[1]), a[2])
         IN  IF a[1] = 0 \/ b[1] = 0 THEN QInt(0)
             ELSE QNorm((a[1] \div g1) * (b[1] \div g2), (a[2] \div g2) * (b[2] \div g1))

\* 1/a; 1/0 is Infinity and 1/Infinity is 0
QInv(a) ==
    IF QIsNaN(a) THEN QNaN
    ELSE IF QIsInf(a) THEN QInt(0)
    ELSE IF a[1] = 0 THEN <<1, 0>>
    ELSE QNorm(a[2], a[1])

QDiv(a, b) == QMul(a, QInv(b))

QLess(a, b) ==
    /\ ~QIsNaN(a) /\ ~QIsNaN(b)
    /\ a # b
    /\ IF QIsInf(a) THEN a[1] < 0
       ELSE IF QIsInf(b) THEN b[1] > 0
       ELSE a[1] * b[2] < b[1] * a[2]

(***************************************************************************)
(* parseTimeframe                                                          *)
(***************************************************************************)
Digits == {"0", "1", "2", "3", "4", "5", "6", "7", "8", "9"}
Units == {"m", "h", "d"}

DigitValue(c) == CASE c = "0" -> 0 [] c = "1" -> 1 [] c = "2" -> 2 [] c = "3" -> 3
                   [] c = "4" -> 4 [] c = "5" -> 5 [] c = "6" -> 6 [] c = "7" -> 7
                   [] c = "8" -> 8 [] c = "9" -> 9

\* timeframe.match(/^(\d+)([mhd])$/)
MatchesGrammar(tok) ==
    /\ Len(tok) >= 2
    /\ \A k \in 1..(Len(tok) - 1) : tok[k] \in Digits
    /\ tok[Len(tok)] \in Units

RECURSIVE parseInt(_)
parseInt(ds) == IF ds = <<>> THEN 0
                ELSE 10 * parseInt(SubSeq(ds, 1, Len(ds) - 1)) + DigitValue(ds[Len(ds)])

\* [threw |-> TRUE] for the thrown Error, [threw |-> FALSE, minutes |-> n] otherwise
parseTimeframe(tok) ==
    IF ~MatchesGrammar(tok) THEN [threw |-> TRUE, minutes |-> 0]
    ELSE LET num  == parseInt(SubSeq(tok, 1, Len(tok) - 1))
             unit == tok[Len(tok)]
         IN  [threw |-> FALSE,
              minutes |-> CASE unit = "m" -> num
                            [] unit = "h" -> num * 60
                            [] unit = "d" -> num * 60 * 24]

(***************************************************************************)
(* getBarTime                                                              *)
(***************************************************************************)
\* Math.floor(ms / intervalMs) * intervalMs; with intervalMs = 0 the quotient is
\* NaN or +-Infinity and the product is NaN
getBarTime(tickTime, minutes) ==
    LET intervalMs == minutes * 60 * 1000
    IN  IF ~IsValidDate(tickTime) \/ intervalMs = 0 THEN InvalidDate
        ELSE Date((tickTime[1] \div intervalMs) * intervalMs)

(***************************************************************************)
(* Array.prototype.sort((a, b) => new Date(a.timestamp) - new Date(b.timestamp)) *)
(* a stable sort; a NaN difference counts as 0                             *)
(***************************************************************************)
Compare(a, b) == IF IsValidDate(a.timestamp) /\ IsValidDate(b.timestamp)
                 THEN a.timestamp[1] - b.timestamp[1]
                 ELSE 0

RECURSIVE Insert(_, _)
Insert(sorted, x) ==
    IF sorted = <<>> THEN <<x>>
    ELSE IF Compare(sorted[Len(sorted)], x) > 0
         THEN Append(Insert(SubSeq(sorted, 1, Len(sorted) - 1), x), sorted[Len(sorted)])
         ELSE Append(sorted, x)

\* the array left in the order the caller gave it
SortByTimestamp_NoSort(a) == a

RECURSIVE SortByTimestamp(_)
SortByTimestamp(a) ==
    IF a = <<>> THEN <<>>
    ELSE Insert(SortByTimestamp(SubSeq(a, 1, Len(a) - 1)), a[Len(a)])

(***************************************************************************)
(* aggregateTicksToBars                                                    *)
(***************************************************************************)
\* new Date(v) of a Date: a Date with the same time value
NewDate(v) == IF IsValidDate(v) THEN Date(v[1]) ELSE InvalidDate

\* tick.bidVolume && tick.askVolume
VolumeAvailable(tick) ==
    /\ Has(tick, "bidVolume") /\ tick.bidVolume # 0
    /\ Has(tick, "askVolume") /\ tick.askVolume # 0

\* (tick.bid + tick.ask) / 2
MidPrice(tick) == FDiv(FAdd(tick.bid, tick.ask), 2)

\* AggTickStep with Math.max and Math.min exchanged in the update of the open bar
AggTickStep_MinMaxSwapped(st, tick, minutes) ==
    LET tickTime == NewDate(tick.timestamp)
        barTime  == getBarTime(tickTime, minutes)
        midPrice == MidPrice(tick)
        fresh    == \/ st.currentBar = <<>>
                    \/ StrictNotEqual(st.currentBar[1].timestamp, barTime)
        cb       == st.currentBar[1]
        n        == FAdd(cb.tickCount, 1)
        bars1    == IF fresh /\ st.currentBar # <<>>
                    THEN Append(st.bars, cb)
                    ELSE st.bars
        bar1     == IF fresh
                    THEN [timestamp |-> barTime,
                          open      |-> midPrice,
                          high      |-> midPrice,
                          low       |-> midPrice,
                          close     |-> midPrice,
                          volume    |-> 0,
                          tickCount |-> 1,
                          spread    |-> FSub(tick.ask, tick.bid)]
                    ELSE [cb EXCEPT
                          !.high      = Min(cb.high, midPrice),
                          !.low       = Max(cb.low, midPrice),
                          !.close     = midPrice,
                          !.tickCount = n,
                          !.spread    = FDiv(FAdd(FMul(cb.spread, FSub(n, 1)),
                                                  FSub(tick.ask, tick.bid)), n)]
        bar2     == IF VolumeAvailable(tick)
                    THEN [bar1 EXCEPT !.volume =
                              FAdd(bar1.volume, FDiv(FAdd(tick.bidVolume, tick.askVolume), 2))]
                    ELSE bar1
    IN  [currentBar |-> <<bar2>>, bars |-> bars1]

\* AggTickStep with the running mean taken over the tick count before its increment
AggTickStep_SpreadPreIncrement(st, tick, minutes) ==
    LET tickTime == NewDate(tick.timestamp)
        barTime  == getBarTime(tickTime, minutes)
        midPrice == MidPrice(tick)
        fresh    == \/ st.currentBar = <<>>
                    \/ StrictNotEqual(st.currentBar[1].timestamp, barTime)
        cb       == st.currentBar[1]
        n        == FAdd(cb.tickCount, 1)
        bars1    == IF fresh /\ st.currentBar # <<>>
                    THEN Append(st.bars, cb)
                    ELSE st.bars
        bar1     == IF fresh
                    THEN [timestamp |-> barTime,
                          open      |-> midPrice,
                          high      |-> midPrice,
                          low       |-> midPrice,
                          close     |-> midPrice,
                          volume    |-> 0,
                          tickCount |-> 1,
                          spread    |-> FSub(tick.ask, tick.bid)]
                    ELSE [cb EXCEPT
                          !.high      = Max(cb.high, midPrice),
                          !.low       = Min(cb.low, midPrice),
                          !.close     = midPrice,
                          !.tickCount = n,
                          !.spread    = FDiv(FAdd(FMul(cb.spread, FSub(cb.tickCount, 1)),
                                                  FSub(tick.ask, tick.bid)), cb.tickCount)]
        bar2     == IF VolumeAvailable(tick)
                    THEN [bar1 EXCEPT !.volume =
                              FAdd(bar1.volume, FDiv(FAdd(tick.bidVolume, tick.askVolume), 2))]
                    ELSE bar1
    IN  [currentBar |-> <<bar2>>, bars |-> bars1]

\* the body of the for-of loop; st = [currentBar, bars]
AggTickStep(st, tick, minutes) ==
    LET tickTime == NewDate(tick.timestamp)
        barTime  == getBarTime(tickTime, minutes)
        midPrice == MidPrice(tick)
        fresh    == \/ st.currentBar = <<>>
                    \/ StrictNotEqual(st.currentBar[1].timestamp, barTime)
        cb       == st.currentBar[1]
        n        == FAdd(cb.tickCount, 1)
        bars1    == IF fresh /\ st.currentBar # <<>>
                    THEN Append(st.bars, cb)
                    ELSE st.bars
        bar1     == IF fresh
                    THEN [timestamp |-> barTime,
                          open      |-> midPrice,
                          high      |-> midPrice,
                          low       |-> midPrice,
                          close     |-> midPrice,
                          volume    |-> 0,
                          tickCount |-> 1,
                          spread    |-> FSub(tick.ask, tick.bid)]
                    ELSE [cb EXCEPT
                          !.high      = Max(cb.high, midPrice),
                          !.low       = Min(cb.low, midPrice),
                          !.close     = midPrice,
                          !.tickCount = n,
                          !.spread    = FDiv(FAdd(FMul(cb.spread, FSub(n, 1)),
                                                  FSub(tick.ask, tick.bid)), n)]
        bar2     == IF VolumeAvailable(tick)
                    THEN [bar1 EXCEPT !.volume =
                              FAdd(bar1.volume, FDiv(FAdd(tick.bidVolume, tick.askVolume), 2))]
                    ELSE bar1
    IN  [currentBar |-> <<bar2>>, bars |-> bars1]

\* "Don't forget the last bar"
\* the return without the push of the open aggregate
Flush_OpenBarDropped(st) == st.bars

Flush(st) == IF st.currentBar # <<>> THEN Append(st.bars, st.currentBar[1]) ELSE st.bars

EmptyState == [currentBar |-> <<>>, bars |-> <<>>]

RECURSIVE AggLoop(_, _, _, _)
AggLoop(st, arr, i, minutes) ==
    IF i > Len(arr) THEN st
    ELSE AggLoop(AggTickStep(st, arr[i], minutes), arr, i + 1, minutes)

\* the whole call: threw, the value returned, and the caller's array afterwards
aggregateTicksToBars(ticks, tok) ==
    IF Len(ticks) = 0 THEN [threw |-> FALSE, value |-> <<>>, array |-> ticks]
    ELSE LET p == parseTimeframe(tok)
         IN  IF p.threw THEN [threw |-> TRUE, value |-> <<>>, array |-> ticks]
             ELSE LET sorted == SortByTimestamp(ticks)
                  IN  [threw |-> FALSE,
                       value |-> Flush(AggLoop(EmptyState, sorted, 1, p.minutes)),
                       array |-> sorted]

(***************************************************************************)
(* resampleBars                                                            *)
(***************************************************************************)
\* ResBarStep without the update of close
ResBarStep_CloseNotUpdated(st, bar, minutes) ==
    LET barTime == getBarTime(NewDate(bar.timestamp), minutes)
        fresh   == \/ st.currentBar = <<>>
                   \/ StrictNotEqual(st.currentBar[1].timestamp, barTime)
        cb      == st.currentBar[1]
        bars1   == IF fresh /\ st.currentBar # <<>>
                   THEN Append(st.bars, cb)
                   ELSE st.bars
        bar1    == IF fresh
                   THEN [timestamp |-> barTime,
                         open      |-> bar.open,
                         high      |-> bar.high,
                         low       |-> bar.low,
                         close     |-> bar.close,
                         volume    |-> OrDefault(bar, "volume", 0),
                         tickCount |-> OrDefault(bar, "tickCount", 1)]
                   ELSE [cb EXCEPT
                         !.high      = Max(cb.high, bar.high),
                         !.low       = Min(cb.low, bar.low),
                         !.close     = cb.close,
                         !.volume    = FAdd(cb.volume, OrDefault(bar, "volume", 0)),
                         !.tickCount = FAdd(cb.tickCount, OrDefault(bar, "tickCount", 1))]
    IN  [currentBar |-> <<bar1>>, bars |-> bars1]

\* ResBarStep with the tickCount of a merged bar left at that of its first source bar
ResBarStep_TickCountNotAdded(st, bar, minutes) ==
    LET barTime == getBarTime(NewDate(bar.timestamp), minutes)
        fresh   == \/ st.currentBar = <<>>
                   \/ StrictNotEqual(st.currentBar[1].timestamp, barTime)
        cb      == st.currentBar[1]
        bars1   == IF fresh /\ st.currentBar # <<>>
                   THEN Append(st.bars, cb)
                   ELSE st.bars
        bar1    == IF fresh
                   THEN [timestamp |-> barTime,
                         open      |-> bar.open,
                         high      |-> bar.high,
                         low       |-> bar.low,
                         close     |-> bar.close,
                         volume    |-> OrDefault(bar, "volume", 0),
                         tickCount |-> OrDefault(bar, "tickCount", 1)]
                   ELSE [cb EXCEPT
                         !.high      = Max(cb.high, bar.high),
                         !.low       = Min(cb.low, bar.low),
                         !.close     = bar.close,
                         !.volume    = FAdd(cb.volume, OrDefault(bar, "volume", 0)),
                         !.tickCount = cb.tickCount]
    IN  [currentBar |-> <<bar1>>, bars |-> bars1]

\* the body of the for-of loop of resampleBars
ResBarStep(st, bar, minutes) ==
    LET barTime == getBarTime(NewDate(bar.timestamp), minutes)
        fresh   == \/ st.currentBar = <<>>
                   \/ StrictNotEqual(st.currentBar[1].timestamp, barTime)
        cb      == st.currentBar[1]
        bars1   == IF fresh /\ st.currentBar # <<>>
                   THEN Append(st.bars, cb)
                   ELSE st.bars
        bar1    == IF fresh
                   THEN [timestamp |-> barTime,
                         open      |-> bar.open,
                         high      |-> bar.high,
                         low       |-> bar.low,
                         close     |-> bar.close,
                         volume    |-> OrDefault(bar, "volume", 0),
                         tickCount |-> OrDefault(bar, "tickCount", 1)]
                   ELSE [cb EXCEPT
                         !.high      = Max(cb.high, bar.high),
                         !.low       = Min(cb.low, bar.low),
                         !.close     = bar.close,
                         !.volume    = FAdd(cb.volume, OrDefault(bar, "volume", 0)),
                         !.tickCount = FAdd(cb.tickCount, OrDefault(bar, "tickCount", 1))]
    IN  [currentBar |-> <<bar1>>, bars |-> bars1]

RECURSIVE ResLoop(_, _, _, _)
ResLoop(st, arr, i, minutes) ==
    IF i > Len(arr) THEN st
    ELSE ResLoop(ResBarStep(st, arr[i], minutes), arr, i + 1, minutes)

resampleBars(srcBars, tok) ==
    IF Len(srcBars) = 0 THEN [threw |-> FALSE, value |-> <<>>, array |-> srcBars]
    ELSE LET sorted == SortByTimestamp(srcBars)
             p      == parseTimeframe(tok)
         IN  IF p.threw THEN [threw |-> TRUE, value |-> <<>>, array |-> sorted]
             ELSE [threw |-> FALSE,
                   value |-> Flush(ResLoop(EmptyState, sorted, 1, p.minutes)),
                   array |-> sorted]

(***************************************************************************)
(* Numbers of the statistics.  <<n, d, r>> is (n/d) * sqrt(r), n/d an      *)
(* extended rational and r a square-free positive integer (1 for a         *)
(* rational, NaN and the infinities).  Math.sqrt of a rational is exact in *)
(* this form; the rounding of doubles is not modelled here.                *)
(***************************************************************************)
Num(q) == <<q[1], q[2], 1>>
NInt(n) == Num(QInt(n))
NaN == Num(QNaN)
Rat(a) == <<a[1], a[2]>>
Root(a) == a[3]
NIsNaN(a) == a = NaN
NIsFinite(a) == QIsFinite(Rat(a))
NIsZero(a) == NIsFinite(a) /\ a[1] = 0

\* the largest s with s * s dividing m: the prime factors of m from k upwards, every
\* pair of equal ones giving a factor of s
RECURSIVE SquarePart(_, _)
SquarePart(m, k) ==
    IF k * k > m THEN 1
    ELSE IF m % (k * k) = 0 THEN k * SquarePart(m \div (k * k), k)
    ELSE IF m % k = 0 THEN SquarePart(m \div k, k + 1)
    ELSE SquarePart(m, k + 1)

NNeg(a) == <<0 - a[1], a[2], a[3]>>

\* a + b; the statistics add only multiples of one root, so a sum of two finite
\* non-zero numbers of different roots has no value here
NAdd(a, b) ==
    IF NIsNaN(a) \/ NIsNaN(b) THEN NaN
    ELSE IF a[2] = 0 /\ b[2] = 0 THEN (IF a[1] = b[1] THEN a ELSE NaN)
    ELSE IF a[2] = 0 THEN a
    ELSE IF b[2] = 0 THEN b
    ELSE IF a[1] = 0 THEN b
    ELSE IF b[1] = 0 THEN a
    ELSE IF a[3] = b[3]
    THEN LET g == GCD(a[2], b[2])
             q == QNorm(a[1] * (b[2] \div g) + b[1] * (a[2] \div g),
                        (a[2] \div g) * b[2])
         IN  IF q[1] = 0 THEN NInt(0) ELSE <<q[1], q[2], a[3]>>
    ELSE CHOOSE x \in {} : TRUE

NSub(a, b) == NAdd(a, NNeg(b))

\* a * b, with sqrt(r1) * sqrt(r2) = g * sqrt((r1 / g) * (r2 / g)) for square-free r1, r2
\* and g their greatest common divisor; Infinity * 0 is NaN
NMul(a, b) ==
    IF NIsNaN(a) \/ NIsNaN(b) THEN NaN
    ELSE IF a[2] = 0 \/ b[2] = 0 THEN <<Sign(a[1]) * Sign(b[1]), 0, 1>>
    ELSE IF a[1] = 0 \/ b[1] = 0 THEN NInt(0)
    ELSE LET g == GCD(a[3], b[3])
             q == QNorm(a[1] * b[1] * g, a[2] * b[2])
         IN  <<q[1], q[2], (a[3] \div g) * (b[3] \div g)>>

\* 1 / b, with 1 / (q * sqrt(r)) = sqrt(r) / (q * r); 1 / 0 is Infinity
NInv(b) ==
    IF NIsNaN(b) THEN NaN
    ELSE IF b[2] = 0 THEN NInt(0)
    ELSE IF b[1] = 0 THEN <<1, 0, 1>>
    ELSE LET q == QNorm(b[2], b[1] * b[3])
         IN  <<q[1], q[2], b[3]>>

NDiv(a, b) == NMul(a, NInv(b))

NLess(a, b) == QLess(Rat(a), Rat(b))

\* Math.sqrt of a rational: NaN below zero, sqrt(n/d) = (sn / (sd * rd)) * sqrt(rn * rd)
\* for n = sn^2 * rn and d = sd^2 * rd
MathSqrt(a) ==
    IF NIsNaN(a) \/ a[1] < 0 THEN NaN
    ELSE IF ~NIsFinite(a) \/ a[1] = 0 THEN a
    ELSE LET sn == SquarePart(a[1], 2)
             sd == SquarePart(a[2], 2)
             rn == a[1] \div (sn * sn)
             rd == a[2] \div (sd * sd)
             q  == QNorm(sn, sd * rd)
         IN  <<q[1], q[2], rn * rd>>

\* Math.pow(a, k) for k = 2, 3, 4
RECURSIVE MathPow(_, _)
MathPow(a, k) == IF k = 1 THEN a ELSE NMul(MathPow(a, k - 1), a)

\* values.reduce((a, b) => a + b, 0)
RECURSIVE Sum(_)
Sum(values) ==
    IF values = <<>> THEN NInt(0)
    ELSE NAdd(Sum(SubSeq(values, 1, Len(values) - 1)), values[Len(values)])

\* Math.min(...values) and Math.max(...values) of a non-empty array
MathMin(values) ==
    IF \E k \in 1..Len(values) : NIsNaN(values[k]) THEN NaN
    ELSE CHOOSE v \in Range(values) : \A w \in Range(values) : ~NLess(w, v)
MathMax(values) ==
    IF \E k \in 1..Len(values) : NIsNaN(values[k]) THEN NaN
    ELSE CHOOSE v \in Range(values) : \A w \in Range(values) : ~NLess(v, w)

(***************************************************************************)
(* calculateTickStatistics                                                 *)
(***************************************************************************)
calculateStdDev(values) ==
    LET mean         == NDiv(Sum(values), NInt(Len(values)))
        squaredDiffs == [i \in 1..Len(values) |-> MathPow(NSub(values[i], mean), 2)]
        variance     == NDiv(Sum(squaredDiffs), NInt(Len(values)))
    IN  MathSqrt(variance)

calculateSkewness(values) ==
    LET n          == Len(values)
        mean       == NDiv(Sum(values), NInt(n))
        std        == calculateStdDev(values)
        cubedDiffs == [i \in 1..n |-> MathPow(NDiv(NSub(values[i], mean), std), 3)]
    IN  NMul(NDiv(NInt(n), NInt((n - 1) * (n - 2))), Sum(cubedDiffs))

calculateKurtosis(values) ==
    LET n           == Len(values)
        mean        == NDiv(Sum(values), NInt(n))
        std         == calculateStdDev(values)
        fourthDiffs == [i \in 1..n |-> MathPow(NDiv(NSub(values[i], mean), std), 4)]
        rawKurtosis == NSub(NMul(NDiv(NInt(n * (n + 1)),
                                      NInt((n - 1) * (n - 2) * (n - 3))),
                                 Sum(fourthDiffs)),
                            NDiv(NMul(NInt(3), MathPow(NInt(n - 1), 2)),
                                 NInt((n - 2) * (n - 3))))
    IN  NSub(rawKurtosis, NInt(3))

\* the locals spreads, midPrices and returns
StatsLocals(ticks) ==
    LET spreads   == [i \in 1..Len(ticks) |-> NInt(ticks[i].ask - ticks[i].bid)]
        midPrices == [i \in 1..Len(ticks) |->
                         NDiv(NInt(ticks[i].bid + ticks[i].ask), NInt(2))]
        returns_  == [i \in 1..(Len(ticks) - 1) |->
                         NDiv(NSub(midPrices[i + 1], midPrices[i]), midPrices[i])]
    IN  [spreads |-> spreads, midPrices |-> midPrices, returns |-> returns_]

\* the object of the return statement
StatsReport(ticks, loc) ==
    [tickCount |-> Len(ticks),
     timeRange |-> [from |-> NewDate(ticks[1].timestamp),
                    to   |-> NewDate(ticks[Len(ticks)].timestamp)],
     spread    |-> [min  |-> MathMin(loc.spreads),
                    max  |-> MathMax(loc.spreads),
                    mean |-> NDiv(Sum(loc.spreads), NInt(Len(loc.spreads))),
                    std  |-> calculateStdDev(loc.spreads)],
     price     |-> [min  |-> MathMin(loc.midPrices),
                    max  |-> MathMax(loc.midPrices),
                    mean |-> NDiv(Sum(loc.midPrices), NInt(Len(loc.midPrices))),
                    std  |-> calculateStdDev(loc.midPrices)],
     returns   |-> [mean     |-> NDiv(Sum(loc.returns), NInt(Len(loc.returns))),
                    std      |-> calculateStdDev(loc.returns),
                    skew     |-> calculateSkewness(loc.returns),
                    kurtosis |-> calculateKurtosis(loc.returns)]]

\* null, as against the empty array
Null == <<"null">>

\* calculateTickStatistics taking the ticks in the order of their timestamps
calculateTickStatistics_Chronological(ticks) ==
    IF Len(ticks) = 0
    THEN [threw |-> FALSE, value |-> <<>>, returns |-> <<>>, array |-> ticks]
    ELSE LET sorted == SortByTimestamp(ticks)
             loc    == StatsLocals(sorted)
         IN  [threw |-> FALSE, value |-> <<StatsReport(sorted, loc)>>,
              returns |-> loc.returns, array |-> sorted]

\* calculateTickStatistics without the early return: a report of no ticks
calculateTickStatistics_NoEarlyReturn(ticks) ==
    IF Len(ticks) = 0
    THEN [threw |-> FALSE, value |-> <<[tickCount |-> 0]>>, returns |-> <<>>, array |-> ticks]
    ELSE LET loc == StatsLocals(ticks)
         IN  [threw |-> FALSE, value |-> <<StatsReport(ticks, loc)>>,
              returns |-> loc.returns, array |-> ticks]

\* the whole call: threw (never), the value returned (<<>> for null, <<report>> for
\* the object), the local returns, and the caller's array afterwards
calculateTickStatistics(ticks) ==
    IF Len(ticks) = 0
    THEN [threw |-> FALSE, value |-> <<>>, returns |-> <<>>, array |-> ticks]
    ELSE LET loc == StatsLocals(ticks)
         IN  [threw |-> FALSE, value |-> <<StatsReport(ticks, loc)>>,
              returns |-> loc.returns, array |-> ticks]

(***************************************************************************)
(* tick_fetcher.js: fetchTickData, processTickData, saveData.  Strings the *)
(* code takes apart (the instrument) are sequences of characters; a value  *)
(* that may be null is <<>> for null and <<v>> for v.                      *)
(***************************************************************************)
EurUsd == <<"E", "U", "R", "/", "U", "S", "D">>
Dax == <<"D", "A", "X">>

\* INSTRUMENTS[instrument], <<>> for undefined (the entries the model calls with)
INSTRUMENTS(instrument) ==
    IF instrument = EurUsd THEN <<<<"e", "u", "r", "u", "s", "d">>>> ELSE <<>>

toLowerCase(s) ==
    LET lower == [c \in {"E", "U", "R", "S", "D", "A", "X", "/"} |->
                    CASE c = "E" -> "e" [] c = "U" -> "u" [] c = "R" -> "r"
                      [] c = "S" -> "s" [] c = "D" -> "d" [] c = "A" -> "a"
                      [] c = "X" -> "x" [] OTHER -> c]
    IN  [k \in 1..Len(s) |-> lower[s[k]]]

\* instrument.replace('/', '_'): the first occurrence only
ReplaceSlash(s) ==
    IF \E k \in 1..Len(s) : s[k] = "/"
    THEN LET first == CHOOSE k \in 1..Len(s) :
                         s[k] = "/" /\ \A j \in 1..(k - 1) : s[j] # "/"
         IN  [k \in 1..Len(s) |-> IF k = first THEN "_" ELSE s[k]]
    ELSE s

\* value || null on a numeric property
OrNull(obj, f) == IF Has(obj, f) /\ obj[f] # 0 THEN <<obj[f]>> ELSE <<>>

\* processTickData with the ticks of a 'tick' request merged into a single record
processTickData_TicksMerged(data, timeframe_) ==
    IF timeframe_ = "tick"
    THEN [k \in 1..Min(Len(data), 1) |->
             [timestamp |-> Date(data[k].timestamp),
              bid       |-> data[k].bid,
              ask       |-> data[Len(data)].ask,
              bidVolume |-> OrNull(data[k], "bidVolume"),
              askVolume |-> OrNull(data[k], "askVolume")]]
    ELSE [k \in 1..Len(data) |->
             [timestamp |-> Date(data[k].timestamp),
              open      |-> data[k].open,
              high      |-> data[k].high,
              low       |-> data[k].low,
              close     |-> data[k].close,
              volume    |-> OrNull(data[k], "volume")]]

processTickData(data, timeframe_) ==
    IF timeframe_ = "tick"
    THEN [k \in 1..Len(data) |->
             [timestamp |-> Date(data[k].timestamp),
              bid       |-> data[k].bid,
              ask       |-> data[k].ask,
              bidVolume |-> OrNull(data[k], "bidVolume"),
              askVolume |-> OrNull(data[k], "askVolume")]]
    ELSE [k \in 1..Len(data) |->
             [timestamp |-> Date(data[k].timestamp),
              open      |-> data[k].open,
              high      |-> data[k].high,
              low       |-> data[k].low,
              close     |-> data[k].close,
              volume    |-> OrNull(data[k], "volume")]]

\* the import of line 287, and what the identifier format names inside saveData:
\* the const of line 446 (options.format, a string), which shadows the import
DateFnsFormat == [typeof |-> "function", value |-> "date-fns.format"]
FormatInSaveData(options) == [typeof |-> "string", value |-> options.format]
IsCallable(v) == v.typeof = "function"

TypeError == "TypeError: format is not a function"
WriteError == "EACCES: permission denied"
FetchError == "Network error"

\* saveData up to its settling; writeOk: fs.mkdir and fs.writeFile succeed
saveData(data, options, writeOk) ==
    LET format == FormatInSaveData(options)
    IN  IF ~IsCallable(format)
        THEN [rejected |-> TRUE, error |-> TypeError, filename |-> <<>>]
        ELSE IF ~writeOk
        THEN [rejected |-> TRUE, error |-> WriteError, filename |-> <<>>]
        ELSE [rejected |-> FALSE, error |-> "",
              filename |-> <<ReplaceSlash(options.instrument), options.timeframe,
                             <<"yyyyMMdd", options.from>>, <<"yyyyMMdd", options.to>>,
                             options.format>>]

\* the destructuring defaults of lines 352-359
WithDefaults(options) ==
    [instrument |-> options.instrument,
     from       |-> options.from,
     to         |-> options.to,
     timeframe  |-> IF Has(options, "timeframe") THEN options.timeframe ELSE "tick",
     volumes    |-> IF Has(options, "volumes") THEN options.volumes ELSE TRUE,
     format     |-> IF Has(options, "format") THEN options.format ELSE "json"]

\* the argument of getHistoricalRates
RatesRequest(options) ==
    LET o    == WithDefaults(options)
        code == INSTRUMENTS(o.instrument)
    IN  [instrument |-> IF code # <<>> THEN code[1] ELSE toLowerCase(o.instrument),
         dates      |-> [from |-> o.from, to |-> o.to],
         timeframe  |-> o.timeframe,
         volumes    |-> o.volumes,
         format     |-> "json"]

\* fetchTickData from the settling of getHistoricalRates on; rates = [ok, data]
fetchTickData(options, rates, writeOk) ==
    LET o == WithDefaults(options)
    IN  IF ~rates.ok
        THEN [rejected |-> TRUE, error |-> FetchError, result |-> <<>>,
              processedData |-> <<>>]
        ELSE LET processedData == processTickData(rates.data, o.timeframe)
                 saved == saveData(processedData,
                                   [instrument |-> o.instrument, from |-> o.from,
                                    to |-> o.to, timeframe |-> o.timeframe,
                                    format |-> o.format],
                                   writeOk)
             IN  IF saved.rejected
                 THEN [rejected |-> TRUE, error |-> saved.error, result |-> <<>>,
                       processedData |-> processedData]
                 ELSE [rejected |-> FALSE, error |-> "",
                       result |-> <<[success    |-> TRUE,
                                     instrument |-> o.instrument,
                                     timeframe  |-> o.timeframe,
                                     dataPoints |-> Len(processedData),
                                     from       |-> o.from,
                                     to         |-> o.to,
                                     filename   |-> saved.filename,
                                     data       |-> IF o.format = "json"
                                                    THEN <<processedData>>
                                                    ELSE <<>>]>>,
                       processedData |-> processedData]

(***************************************************************************)
(* Inputs.  Prices are in units of 0.005, volumes in lots, times in ms.    *)
(***************************************************************************)
Tick(ms, bid, ask) == [timestamp |-> Date(ms), bid |-> bid, ask |-> ask]
TickV(ms, bid, ask, bv, av) ==
    [timestamp |-> Date(ms), bid |-> bid, ask |-> ask, bidVolume |-> bv, askVolume |-> av]

TickPool ==
    { Tick(0, 220, 222),                 \* t=0     bid 1.10 ask 1.11
      Tick(30000, 224, 226),             \* t=30s   bid 1.12 ask 1.13
      Tick(90000, 222, 224),             \* t=90s   bid 1.11 ask 1.12
      TickV(0 - 1, 222, 224, 1, 1),      \* just before the epoch
      TickV(0, 224, 226, 256, 256),      \* same instant as the first, large volume
      TickV(300000, 220, 222, 1, 1),     \* t=5min
      TickV(360000, 224, 228, 1, 1),     \* t=6min, a wider spread
      TickV(900000, 222, 224, 0, 4) }    \* t=15min, a bid volume of 0

SrcBar(ms, o, h, l, c) ==
    [timestamp |-> Date(ms), open |-> o, high |-> h, low |-> l, close |-> c]

BarPool ==
    { [timestamp |-> Date(0), open |-> 221, high |-> 225, low |-> 221, close |-> 225,
       volume |-> 2, tickCount |-> 2],
      SrcBar(300000, 223, 223, 219, 221),
      [timestamp |-> Date(600000), open |-> 221, high |-> 227, low |-> 221, close |-> 226,
       volume |-> 0],
      [timestamp |-> Date(900000), open |-> 226, high |-> 226, low |-> 224, close |-> 224,
       volume |-> 256, tickCount |-> 3] }

SeqsUpTo(S, n) == UNION { [1..k -> S] : k \in 0..n }

\* "1m", "5m", "15m", "1h", "1d", "0m", "tick", "5x"
Tokens ==
    { <<"1", "m">>, <<"5", "m">>, <<"1", "5", "m">>, <<"1", "h">>, <<"1", "d">>,
      <<"0", "m">>, <<"t", "i", "c", "k">>, <<"5", "x">> }

IsTicks(a) == \A k \in 1..Len(a) : Has(a[k], "bid")
IsBars(a) == \A k \in 1..Len(a) : Has(a[k], "open")

\* the fetcher before a call
FetchIdle ==
    [pc |-> "idle", options |-> <<>>, request |-> <<>>, rates |-> <<>>, writeOk |-> <<>>,
     processedData |-> <<>>, result |-> <<>>, error |-> ""]

\* no fetchMultipleInstruments call yet; started and fetches are the history of the
\* call: the instruments whose fetch has begun and the fetches the loop has awaited
MultiIdle ==
    [pc |-> "idle", instruments |-> <<>>, options |-> <<>>, idx |-> 0, results |-> <<>>,
     started |-> <<>>, fetches |-> <<>>]

(***************************************************************************)
(* The state machine: a caller holding one array calls the two functions   *)
(***************************************************************************)
Init ==
    /\ input \in SeqsUpTo(TickPool, MaxLen) \cup SeqsUpTo(BarPool, MaxLen)
    /\ before = input
    /\ origin = <<>>
    /\ fn = "none"
    /\ timeframe = <<>>
    /\ pc = "idle"
    /\ intervalMinutes = 0
    /\ idx = 0
    /\ currentBar = <<>>
    /\ bars = <<>>
    /\ ret = <<>>
    /\ returns = <<>>
    /\ original = input
    /\ fetch = FetchIdle
    /\ multi = MultiIdle

\* AggStart with the timeframe parsed before the length of the array is looked at
AggStart_ParseFirst(tok) ==
    /\ pc = "idle"
    /\ UNCHANGED <<returns, original, fetch, multi>>
    /\ IsTicks(input)
    /\ fn' = "aggregateTicksToBars"
    /\ timeframe' = tok
    /\ UNCHANGED <<before, origin, currentBar, bars>>
    /\ IF parseTimeframe(tok).threw
       THEN /\ pc' = "threw"
            /\ UNCHANGED <<input, intervalMinutes, idx, ret>>
       ELSE IF Len(input) = 0
       THEN /\ pc' = "returned"
            /\ ret' = <<>>
            /\ UNCHANGED <<input, intervalMinutes, idx>>
       ELSE /\ intervalMinutes' = parseTimeframe(tok).minutes
            /\ input' = SortByTimestamp(input)
            /\ idx' = 1
            /\ pc' = "loop"
            /\ UNCHANGED ret

\* AggStart returning null for the empty array, as calculateTickStatistics does
AggStart_ReturnsNull(tok) ==
    /\ pc = "idle"
    /\ UNCHANGED <<returns, original, fetch, multi>>
    /\ IsTicks(input)
    /\ fn' = "aggregateTicksToBars"
    /\ timeframe' = tok
    /\ UNCHANGED <<before, origin, currentBar, bars>>
    /\ IF Len(input) = 0
       THEN /\ pc' = "returned"
            /\ ret' = Null
            /\ UNCHANGED <<input, intervalMinutes, idx>>
       ELSE IF parseTimeframe(tok).threw
       THEN /\ pc' = "threw"
            /\ UNCHANGED <<input, intervalMinutes, idx, ret>>
       ELSE /\ intervalMinutes' = parseTimeframe(tok).minutes
            /\ input' = SortByTimestamp(input)
            /\ idx' = 1
            /\ pc' = "loop"
            /\ UNCHANGED ret

\* aggregator.js 16-26: early return, parseTimeframe, in-place sort, locals
AggStart(tok) ==
    /\ pc = "idle"
    /\ UNCHANGED <<returns, original, fetch, multi>>
    /\ IsTicks(input)
    /\ fn' = "aggregateTicksToBars"
    /\ timeframe' = tok
    /\ UNCHANGED <<before, origin, currentBar, bars>>
    /\ IF Len(input) = 0
       THEN /\ pc' = "returned"
            /\ ret' = <<>>
            /\ UNCHANGED <<input, intervalMinutes, idx>>
       ELSE IF parseTimeframe(tok).threw
       THEN /\ pc' = "threw"
            /\ UNCHANGED <<input, intervalMinutes, idx, ret>>
       ELSE /\ intervalMinutes' = parseTimeframe(tok).minutes
            /\ input' = SortByTimestamp(input)
            /\ idx' = 1
            /\ pc' = "loop"
            /\ UNCHANGED ret

\* aggregator.js 28-64: one iteration of the loop
AggTick ==
    /\ pc = "loop"
    /\ UNCHANGED <<returns, original, fetch, multi>>
    /\ fn = "aggregateTicksToBars"
    /\ idx <= Len(input)
    /\ LET st == AggTickStep([currentBar |-> currentBar, bars |-> bars],
                             input[idx], intervalMinutes)
       IN  /\ currentBar' = st.currentBar
           /\ bars' = st.bars
    /\ idx' = idx + 1
    /\ UNCHANGED <<input, before, origin, fn, timeframe, pc, intervalMinutes, ret>>

\* aggregator.js 66-71: flush and return
AggReturn ==
    /\ pc = "loop"
    /\ UNCHANGED <<returns, original, fetch, multi>>
    /\ fn = "aggregateTicksToBars"
    /\ idx > Len(input)
    /\ bars' = Flush([currentBar |-> currentBar, bars |-> bars])
    /\ ret' = bars'
    /\ pc' = "returned"
    /\ UNCHANGED <<input, before, origin, fn, timeframe, intervalMinutes, idx, currentBar>>

\* aggregator.js 203-211: early return, in-place sort, parseTimeframe, locals
ResStart(tok) ==
    /\ pc = "idle"
    /\ UNCHANGED <<returns, original, fetch, multi>>
    /\ IsBars(input)
    /\ fn' = "resampleBars"
    /\ timeframe' = tok
    /\ UNCHANGED <<before, origin, currentBar, bars>>
    /\ IF Len(input) = 0
       THEN /\ pc' = "returned"
            /\ ret' = <<>>
            /\ UNCHANGED <<input, intervalMinutes, idx>>
       ELSE /\ input' = SortByTimestamp(input)
            /\ UNCHANGED ret
            /\ IF parseTimeframe(tok).threw
               THEN /\ pc' = "threw"
                    /\ UNCHANGED <<intervalMinutes, idx>>
               ELSE /\ intervalMinutes' = parseTimeframe(tok).minutes
                    /\ idx' = 1
                    /\ pc' = "loop"

\* aggregator.js 213-239
ResBar ==
    /\ pc = "loop"
    /\ UNCHANGED <<returns, original, fetch, multi>>
    /\ fn = "resampleBars"
    /\ idx <= Len(input)
    /\ LET st == ResBarStep([currentBar |-> currentBar, bars |-> bars],
                            input[idx], intervalMinutes)
       IN  /\ currentBar' = st.currentBar
           /\ bars' = st.bars
    /\ idx' = idx + 1
    /\ UNCHANGED <<input, before, origin, fn, timeframe, pc, intervalMinutes, ret>>

\* aggregator.js 241-246
ResReturn ==
    /\ pc = "loop"
    /\ UNCHANGED <<returns, original, fetch, multi>>
    /\ fn = "resampleBars"
    /\ idx > Len(input)
    /\ bars' = Flush([currentBar |-> currentBar, bars |-> bars])
    /\ ret' = bars'
    /\ pc' = "returned"
    /\ UNCHANGED <<input, before, origin, fn, timeframe, intervalMinutes, idx, currentBar>>

\* the caller passes the bars aggregateTicksToBars returned on to resampleBars
Pipe ==
    /\ pc = "returned"
    /\ fn = "aggregateTicksToBars"
    /\ input' = ret
    /\ before' = ret
    /\ origin' = <<[ticks |-> before, timeframe |-> timeframe]>>
    /\ pc' = "idle"
    /\ fn' = "none"
    /\ timeframe' = <<>>
    /\ intervalMinutes' = 0
    /\ idx' = 0
    /\ currentBar' = <<>>
    /\ bars' = <<>>
    /\ ret' = <<>>
    /\ returns' = <<>>
    /\ original' = ret
    /\ UNCHANGED <<fetch, multi>>

\* the caller makes a further call on the same array
Again ==
    /\ pc \in {"returned", "threw"}
    /\ before' = input
    /\ origin' = <<>>
    /\ pc' = "idle"
    /\ fn' = "none"
    /\ timeframe' = <<>>
    /\ intervalMinutes' = 0
    /\ idx' = 0
    /\ currentBar' = <<>>
    /\ bars' = <<>>
    /\ ret' = <<>>
    /\ returns' = <<>>
    /\ UNCHANGED <<input, original, fetch, multi>>

Next ==
    \/ \E tok \in Tokens : AggStart(tok)
    \/ AggTick
    \/ AggReturn
    \/ \E tok \in Tokens : ResStart(tok)
    \/ ResBar
    \/ ResReturn
    \/ Pipe
    \/ Again

Spec == Init /\ [][Next]_vars

(***************************************************************************)
(* The statistics: a caller holding an array of ticks calls                *)
(* calculateTickStatistics, before or after aggregateTicksToBars.  Prices  *)
(* are small integers here, so that the exact fractions stay small.        *)
(***************************************************************************)
StatsMaxLen == 4

StatsPool ==
    { Tick(60000, 1, 3),                 \* t=1min  mid 2
      Tick(0, 3, 5),                     \* t=0     mid 4
      TickV(120000, 6, 10, 1, 1) }       \* t=2min  mid 8, a wider spread

StatsInit ==
    /\ input \in SeqsUpTo(StatsPool, StatsMaxLen)
    /\ before = input
    /\ origin = <<>>
    /\ fn = "none"
    /\ timeframe = <<>>
    /\ pc = "idle"
    /\ intervalMinutes = 0
    /\ idx = 0
    /\ currentBar = <<>>
    /\ bars = <<>>
    /\ ret = <<>>
    /\ returns = <<>>
    /\ original = input
    /\ fetch = FetchIdle
    /\ multi = MultiIdle

\* aggregator.js 114-151: the whole call
StatsCall ==
    /\ pc = "idle"
    /\ IsTicks(input)
    /\ fn' = "calculateTickStatistics"
    /\ LET r == calculateTickStatistics(input)
       IN  /\ pc' = IF r.threw THEN "threw" ELSE "returned"
           /\ ret' = r.value
           /\ returns' = r.returns
           /\ input' = r.array
    /\ UNCHANGED <<before, origin, timeframe, intervalMinutes, idx, currentBar, bars,
                   original, fetch, multi>>

StatsNext ==
    \/ \E tok \in Tokens : AggStart(tok)
    \/ AggTick
    \/ AggReturn
    \/ StatsCall
    \/ Again

StatsSpec == StatsInit /\ [][StatsNext]_vars

(***************************************************************************)
(* The moments on their own: calculateStdDev and calculateKurtosis applied *)
(* to a series of returns.                                                 *)
(***************************************************************************)
KurtMaxLen == 4

\* returns of -50%, 100% and 300%
KurtPool == { Num(<<-1, 2>>), NInt(1), NInt(3) }

KurtInit ==
    /\ input = <<>>
    /\ before = <<>>
    /\ origin = <<>>
    /\ fn = "none"
    /\ timeframe = <<>>
    /\ pc = "idle"
    /\ intervalMinutes = 0
    /\ idx = 0
    /\ currentBar = <<>>
    /\ bars = <<>>
    /\ ret = <<>>
    /\ returns \in SeqsUpTo(KurtPool, KurtMaxLen)
    /\ original = <<>>
    /\ fetch = FetchIdle
    /\ multi = MultiIdle

\* aggregator.js 158-163: the whole call
StdDevCall ==
    /\ pc = "idle"
    /\ fn' = "calculateStdDev"
    /\ pc' = "returned"
    /\ ret' = <<calculateStdDev(returns)>>
    /\ UNCHANGED <<input, before, origin, timeframe, intervalMinutes, idx, currentBar,
                   bars, returns, original, fetch, multi>>

\* aggregator.js 184-195: the whole call
KurtosisCall ==
    /\ pc = "idle"
    /\ fn' = "calculateKurtosis"
    /\ pc' = "returned"
    /\ ret' = <<calculateKurtosis(returns)>>
    /\ UNCHANGED <<input, before, origin, timeframe, intervalMinutes, idx, currentBar,
                   bars, returns, original, fetch, multi>>

KurtNext ==
    \/ StdDevCall
    \/ KurtosisCall

KurtSpec == KurtInit /\ [][KurtNext]_vars

(***************************************************************************)
(* The fetcher: a caller awaits one fetchTickData call; the provider and   *)
(* the file system answer as they please.                                  *)
(***************************************************************************)
FetchMaxLen == 2

\* the records getHistoricalRates resolves with, for 'tick' and for a bar timeframe
RawTicks ==
    { [timestamp |-> 0, bid |-> 220, ask |-> 222, bidVolume |-> 1, askVolume |-> 2],
      [timestamp |-> 1000, bid |-> 222, ask |-> 224, bidVolume |-> 0, askVolume |-> 4],
      [timestamp |-> 2000, bid |-> 224, ask |-> 226] }
RawBars ==
    { [timestamp |-> 0, open |-> 221, high |-> 225, low |-> 221, close |-> 225,
       volume |-> 3],
      [timestamp |-> 60000, open |-> 225, high |-> 225, low |-> 223, close |-> 223] }

FetchOptions ==
    LET base == { [instrument |-> i, from |-> 1, to |-> 8, timeframe |-> t]
                    : i \in {EurUsd, Dax}, t \in {"tick", "m1"} }
    IN  { [instrument |-> o.instrument, from |-> o.from, to |-> o.to,
           timeframe |-> o.timeframe, volumes |-> TRUE, format |-> f]
            : o \in base, f \in {"json", "csv"} }
        \cup { [instrument |-> i, from |-> 1, to |-> 8] : i \in {EurUsd, Dax} }

RatesOutcomes(timeframe_) ==
    { [ok |-> FALSE, data |-> <<>>] }
    \cup { [ok |-> TRUE, data |-> d]
             : d \in SeqsUpTo(IF timeframe_ = "tick" THEN RawTicks ELSE RawBars,
                              FetchMaxLen) }

FetchInit ==
    /\ input = <<>>
    /\ before = <<>>
    /\ origin = <<>>
    /\ fn = "none"
    /\ timeframe = <<>>
    /\ pc = "idle"
    /\ intervalMinutes = 0
    /\ idx = 0
    /\ currentBar = <<>>
    /\ bars = <<>>
    /\ ret = <<>>
    /\ returns = <<>>
    /\ original = <<>>
    /\ fetch = FetchIdle
    /\ multi = MultiIdle

\* part_000 351-377: the call up to the await of getHistoricalRates
FetchStart(options) ==
    /\ fetch.pc = "idle"
    /\ fetch' = [fetch EXCEPT !.pc = "pending",
                              !.options = <<options>>,
                              !.request = <<RatesRequest(options)>>]
    /\ UNCHANGED <<input, before, origin, fn, timeframe, pc, intervalMinutes, idx,
                   currentBar, bars, ret, returns, original, multi>>

\* part_000 366-407 and 445-472: getHistoricalRates settles and the call runs to the
\* settling of its own promise
FetchSettle(rates, writeOk) ==
    /\ fetch.pc = "pending"
    \* the provider answers in the shape of the timeframe asked for
    /\ rates \in RatesOutcomes(WithDefaults(fetch.options[1]).timeframe)
    /\ LET r == fetchTickData(fetch.options[1], rates, writeOk)
       IN  fetch' = [fetch EXCEPT !.pc = IF r.rejected THEN "rejected" ELSE "resolved",
                                  !.rates = <<rates>>,
                                  !.writeOk = <<writeOk>>,
                                  !.processedData = r.processedData,
                                  !.result = r.result,
                                  !.error = r.error]
    /\ UNCHANGED <<input, before, origin, fn, timeframe, pc, intervalMinutes, idx,
                   currentBar, bars, ret, returns, original, multi>>

FetchNext ==
    \/ \E options \in FetchOptions : FetchStart(options)
    \/ \E writeOk \in BOOLEAN :
         \E rates \in RatesOutcomes("tick") \cup RatesOutcomes("m1") :
            FetchSettle(rates, writeOk)

FetchSpec == FetchInit /\ [][FetchNext]_vars

(***************************************************************************)
(* fetchMultipleInstruments: the loop awaits one fetchTickData call after  *)
(* the other; the provider and the file system answer as they please.      *)
(***************************************************************************)
MultiMaxLen == 3

MultiInstruments == SeqsUpTo({EurUsd, Dax}, MultiMaxLen)

\* the common options of the call
MultiOptions ==
    { [from |-> 1, to |-> 8, timeframe |-> "m1", format |-> "json"],
      [from |-> 1, to |-> 8] }

\* { ...options, instrument: instrument }
WithInstrument(options, instrument) ==
    [f \in DOMAIN options \cup {"instrument"} |->
        IF f = "instrument" THEN instrument ELSE options[f]]

\* part_000 351-377: a new fetchTickData call up to the await of getHistoricalRates
BeginFetch(options) ==
    [FetchIdle EXCEPT !.pc = "pending",
                      !.options = <<options>>,
                      !.request = <<RatesRequest(options)>>]

\* the record the catch block pushes
FailureRecord(instrument, error) ==
    [success |-> FALSE, instrument |-> instrument, error |-> error]

\* what the loop has seen of a fetch it awaited
Outcome(f) == [pc |-> f.pc, result |-> f.result, error |-> f.error]

MultiInit ==
    /\ input = <<>>
    /\ before = <<>>
    /\ origin = <<>>
    /\ fn = "none"
    /\ timeframe = <<>>
    /\ pc = "idle"
    /\ intervalMinutes = 0
    /\ idx = 0
    /\ currentBar = <<>>
    /\ bars = <<>>
    /\ ret = <<>>
    /\ returns = <<>>
    /\ original = <<>>
    /\ fetch = FetchIdle
    /\ multi = MultiIdle

\* part_000 516-524: the call up to its first await, or to its return for no
\* instruments
MultiCall(instruments, options) ==
    /\ multi.pc = "idle"
    /\ IF instruments = <<>>
       THEN /\ multi' = [multi EXCEPT !.pc = "returned",
                                      !.instruments = instruments,
                                      !.options = <<options>>]
            /\ UNCHANGED fetch
       ELSE /\ multi' = [multi EXCEPT !.pc = "awaitFetch",
                                      !.instruments = instruments,
                                      !.options = <<options>>,
                                      !.idx = 1,
                                      !.started = <<instruments[1]>>]
            /\ fetch' = BeginFetch(WithInstrument(options, instruments[1]))
    /\ UNCHANGED <<input, before, origin, fn, timeframe, pc, intervalMinutes, idx,
                   currentBar, bars, ret, returns, original>>

\* MultiContinue without the try/catch: a failed fetch rejects the whole call
MultiContinue_AbortsOnFailure ==
    /\ multi.pc = "awaitFetch"
    /\ fetch.pc \in {"resolved", "rejected"}
    /\ multi' = [multi EXCEPT !.pc = IF fetch.pc = "rejected" THEN "rejected" ELSE "delay",
                              !.results = IF fetch.pc = "rejected" THEN @
                                          ELSE Append(@, fetch.result[1]),
                              !.fetches = Append(@, Outcome(fetch))]
    /\ UNCHANGED <<input, before, origin, fn, timeframe, pc, intervalMinutes, idx,
                   currentBar, bars, ret, returns, original, fetch>>

\* part_000 521-540: the loop resumes, after the fetch it awaited has settled or
\* after the delay, and runs to its next await or to the return
MultiContinue ==
    /\ \/ multi.pc = "awaitFetch" /\ fetch.pc \in {"resolved", "rejected"}
       \/ multi.pc = "delay"
    /\ LET afterFetch == multi.pc = "awaitFetch"
           instrument == multi.instruments[multi.idx]
           results1   == IF ~afterFetch THEN multi.results
                         ELSE IF fetch.pc = "resolved"
                         THEN Append(multi.results, fetch.result[1])
                         ELSE Append(multi.results, FailureRecord(instrument, fetch.error))
           fetches1   == IF afterFetch THEN Append(multi.fetches, Outcome(fetch))
                         ELSE multi.fetches
       IN  IF afterFetch /\ fetch.pc = "resolved"
           THEN \* await new Promise(resolve => setTimeout(resolve, 1000))
                /\ multi' = [multi EXCEPT !.pc = "delay",
                                          !.results = results1,
                                          !.fetches = fetches1]
                /\ UNCHANGED fetch
           ELSE IF multi.idx = Len(multi.instruments)
           THEN /\ multi' = [multi EXCEPT !.pc = "returned",
                                          !.results = results1,
                                          !.fetches = fetches1]
                /\ UNCHANGED fetch
           ELSE /\ multi' = [multi EXCEPT
                                !.pc = "awaitFetch",
                                !.idx = @ + 1,
                                !.results = results1,
                                !.fetches = fetches1,
                                !.started = Append(@, multi.instruments[multi.idx + 1])]
                /\ fetch' = BeginFetch(WithInstrument(multi.options[1],
                                                      multi.instruments[multi.idx + 1]))
    /\ UNCHANGED <<input, before, origin, fn, timeframe, pc, intervalMinutes, idx,
                   currentBar, bars, ret, returns, original>>

MultiNext ==
    \/ \E instruments \in MultiInstruments, options \in MultiOptions :
         MultiCall(instruments, options)
    \/ \E writeOk \in BOOLEAN :
         \E rates \in RatesOutcomes("tick") \cup RatesOutcomes("m1") :
            FetchSettle(rates, writeOk)
    \/ MultiContinue

MultiSpec == MultiInit /\ [][MultiNext]_vars

(***************************************************************************)
(* Vocabulary of the properties                                            *)
(***************************************************************************)
AggReturned == pc = "returned" /\ fn = "aggregateTicksToBars"
ResReturned == pc = "returned" /\ fn = "resampleBars"
CallEnded == pc \in {"returned", "threw"}

\* a < b and a <= b on two time values; every comparison with NaN is false
TimeLess(a, b) == IsValidDate(a) /\ IsValidDate(b) /\ a[1] < b[1]
TimeLessEq(a, b) == IsValidDate(a) /\ IsValidDate(b) /\ a[1] <= b[1]
\* a === b on two time values
TimeEqual(a, b) == IsValidDate(a) /\ IsValidDate(b) /\ a[1] = b[1]


\* the minutes the timeframe of the call in progress stands for
CallMinutes == parseTimeframe(timeframe).minutes

\* C1: for every non-empty tick sequence and every timeframe token parseTimeframe
\* accepts, the bars aggregateTicksToBars returns are in strictly ascending
\* timestamp order (so no two share a bucket start).
C1_StrictlyAscending ==
    (AggReturned /\ Len(before) > 0) =>
        \A k \in 1..(Len(ret) - 1) : TimeLess(ret[k].timestamp, ret[k + 1].timestamp)

\* C1 restricted to the tokens that stand for at least one minute
C1_AscendingPositiveInterval ==
    (AggReturned /\ Len(before) > 0 /\ CallMinutes >= 1) =>
        \A k \in 1..(Len(ret) - 1) : TimeLess(ret[k].timestamp, ret[k + 1].timestamp)

\* C2: the timestamps of the bars aggregateTicksToBars returns are exactly the
\* bucket starts getBarTime gives the ticks: one bar per bucket that holds a tick,
\* its timestamp a multiple of the interval in ms, and no bar for an empty bucket.
C2_OneBarPerBucket ==
    (AggReturned /\ Len(before) > 0) =>
        /\ { ret[k].timestamp : k \in 1..Len(ret) }
             = { getBarTime(NewDate(t.timestamp), CallMinutes) : t \in Range(before) }
        /\ \A j, k \in 1..Len(ret) : j # k => ret[j].timestamp # ret[k].timestamp
        /\ \A k \in 1..Len(ret) :
             /\ IsValidDate(ret[k].timestamp)
             /\ CallMinutes > 0
             /\ ret[k].timestamp[1] % (CallMinutes * 60 * 1000) = 0

\* C2 restricted to the tokens that stand for at least one minute
C2_OneBarPerBucketPositiveInterval ==
    (AggReturned /\ Len(before) > 0 /\ CallMinutes >= 1) => C2_OneBarPerBucket

\* C3: for every accepted timeframe and every timestamp t, negative ones included,
\* getBarTime(t) <= t and getBarTime(getBarTime(t)) = getBarTime(t).
C3_FloorAndIdempotent ==
    (pc = "loop" /\ idx <= Len(input) /\ IsValidDate(input[idx].timestamp)) =>
        LET t == NewDate(input[idx].timestamp)
            b == getBarTime(t, intervalMinutes)
        IN  /\ TimeLessEq(b, t)
            /\ TimeEqual(getBarTime(b, intervalMinutes), b)

\* C3 restricted to the tokens that stand for at least one minute
C3_FloorAndIdempotentPositiveInterval ==
    (pc = "loop" /\ intervalMinutes >= 1) => C3_FloorAndIdempotent

\* C4: aggregateTicksToBars and resampleBars do not mutate the caller's array:
\* after the call it holds the same records in the same order as before.
C4_InputNotMutated ==
    CallEnded => input = before

(***************************************************************************)
(* Direct aggregation against aggregation followed by resampling           *)
(***************************************************************************)
Tok5m == <<"5", "m">>
Tok15m == <<"1", "5", "m">>
Tok1m == <<"1", "m">>

\* resampleBars(aggregateTicksToBars(ticks, '5m'), '15m') has just returned
Resampled5mTo15m ==
    /\ ResReturned
    /\ origin # <<>>
    /\ origin[1].timeframe = Tok5m
    /\ timeframe = Tok15m

\* aggregateTicksToBars(ticks, '15m') on the ticks the 5m bars came from
Direct15m == aggregateTicksToBars(origin[1].ticks, Tok15m).value

SameOHLC(a, b) ==
    /\ a.timestamp = b.timestamp
    /\ a.open = b.open
    /\ a.high = b.high
    /\ a.low = b.low
    /\ a.close = b.close

\* what one tick adds to the volume of its bar
VolumeOf(tick) ==
    IF VolumeAvailable(tick) THEN FDiv(FAdd(tick.bidVolume, tick.askVolume), 2) ELSE 0

RECURSIVE ExactSum(_)
ExactSum(vs) == IF vs = <<>> THEN 0 ELSE vs[1] + ExactSum(Tail(vs))

\* the ticks of seq that getBarTime puts into the bucket starting at start
TicksOfBucket(seq, minutes, start) ==
    LET InBucket(t) == TimeEqual(getBarTime(NewDate(t.timestamp), minutes), start)
    IN  SelectSeq(seq, InBucket)

\* the per-tick volumes of a bucket add up without any rounding
AddsExactly(seq, minutes, start) ==
    LET S == TicksOfBucket(seq, minutes, start)
    IN  ExactSum([k \in 1..Len(S) |-> VolumeOf(S[k])]) <= Pow2(MantBits)

\* C5: resampleBars(aggregateTicksToBars(ticks, '5m'), '15m') yields the same bars as
\* aggregateTicksToBars(ticks, '15m') in timestamp, open, high, low, close and volume.
C5_ResampleEqualsDirect ==
    Resampled5mTo15m =>
        /\ Len(ret) = Len(Direct15m)
        /\ \A k \in 1..Len(ret) :
             /\ SameOHLC(ret[k], Direct15m[k])
             /\ ret[k].volume = Direct15m[k].volume

\* C5 as amended: the same bars in timestamp, open, high, low and close; the volume
\* is the same too whenever the bucket's per-tick volumes add up without rounding.
C5_ResampleEqualsDirectUpToRounding ==
    Resampled5mTo15m =>
        /\ Len(ret) = Len(Direct15m)
        /\ \A k \in 1..Len(ret) :
             /\ SameOHLC(ret[k], Direct15m[k])
             /\ AddsExactly(origin[1].ticks, 15, ret[k].timestamp)
                  => ret[k].volume = Direct15m[k].volume

\* a 15m bar merged from two 5m bars has been returned
C5_Witness ==
    /\ Resampled5mTo15m
    /\ Len(before) = 2
    /\ Len(ret) = 1
    /\ ret[1].volume > 0
    /\ ret[1].high > ret[1].low

(***************************************************************************)
(* Errors and empty input                                                  *)
(***************************************************************************)
\* C6: for every input sequence, of any length, both functions fail with the invalid
\* timeframe error, returning no bars, exactly when the token does not match
\* ^\d+[mhd]$.
C6_ThrowsIffInvalidToken ==
    CallEnded =>
        /\ (pc = "threw") <=> ~MatchesGrammar(timeframe)
        /\ (pc = "threw") => ret = <<>>

\* C6 as amended: for every non-empty input sequence both functions fail with the
\* invalid timeframe error, returning no bars, exactly when the token does not match
\* ^\d+[mhd]$; on an empty input they return an empty sequence whatever the token.
C6_ThrowsIffInvalidTokenAndNonEmpty ==
    CallEnded =>
        /\ (pc = "threw") <=> (Len(before) > 0 /\ ~MatchesGrammar(timeframe))
        /\ (pc = "threw") => ret = <<>>
        /\ (Len(before) = 0) => ret = <<>>

\* a call on a non-empty array has failed on a token outside the grammar
C6_Witness ==
    /\ pc = "threw"
    /\ Len(before) >= 2
    /\ timeframe = <<"t", "i", "c", "k">>

\* C7: for every valid timeframe token, aggregateTicksToBars([]) and resampleBars([])
\* return an empty sequence and raise no error.
C7_EmptyInEmptyOut ==
    (CallEnded /\ Len(before) = 0 /\ MatchesGrammar(timeframe)) =>
        /\ pc = "returned"
        /\ ret = <<>>

\* resampleBars([], '1h') has returned
C7_Witness ==
    /\ ResReturned
    /\ Len(before) = 0
    /\ timeframe = <<"1", "h">>

(***************************************************************************)
(* The fields of a bar                                                     *)
(***************************************************************************)
\* the ticks of the call's bucket of bar k, in ascending timestamp order
BucketTicks(k) == TicksOfBucket(SortByTimestamp(before), CallMinutes, ret[k].timestamp)

\* bar is the single-tick bar of tick
SingleTickBar(bar, tick) ==
    /\ bar.open = MidPrice(tick)
    /\ bar.high = MidPrice(tick)
    /\ bar.low = MidPrice(tick)
    /\ bar.close = MidPrice(tick)
    /\ bar.tickCount = 1

\* the ticks at t=0 (mid 1.105), t=30s (mid 1.125) and t=90s (mid 1.115)
ScenarioTicks == { Tick(0, 220, 222), Tick(30000, 224, 226), Tick(90000, 222, 224) }

\* C8: every bar aggregateTicksToBars returns has open = mid of the first tick of its
\* bucket, close = mid of the last, high = the largest and low = the smallest mid,
\* and tickCount = the number of ticks of the bucket; one tick gives one bar with
\* open = high = low = close = mid and tickCount 1; the three scenario ticks give
\* at '1m' the bars (1.105, 1.125, 1.105, 1.125, 2) and (1.115 four times, 1).
C8_BarFields ==
    (AggReturned /\ Len(before) > 0) =>
        /\ \A k \in 1..Len(ret) : IsValidDate(ret[k].timestamp) =>
             LET S == BucketTicks(k)
             IN  /\ Len(S) >= 1
                 /\ ret[k].open = MidPrice(S[1])
                 /\ ret[k].close = MidPrice(S[Len(S)])
                 /\ \A j \in 1..Len(S) : MidPrice(S[j]) <= ret[k].high
                 /\ \E j \in 1..Len(S) : MidPrice(S[j]) = ret[k].high
                 /\ \A j \in 1..Len(S) : MidPrice(S[j]) >= ret[k].low
                 /\ \E j \in 1..Len(S) : MidPrice(S[j]) = ret[k].low
                 /\ ret[k].tickCount = Len(S)
        \* with no valid bucket start every tick is a bucket of its own
        /\ \A k \in 1..Len(ret) : ~IsValidDate(ret[k].timestamp) =>
             /\ Len(ret) = Len(before)
             /\ SingleTickBar(ret[k], SortByTimestamp(before)[k])
        /\ Len(before) = 1 =>
             /\ Len(ret) = 1
             /\ SingleTickBar(ret[1], before[1])
        /\ (Range(before) = ScenarioTicks /\ Len(before) = 3 /\ timeframe = Tok1m) =>
             /\ Len(ret) = 2
             /\ ret[1].timestamp = Date(0)
             /\ <<ret[1].open, ret[1].high, ret[1].low, ret[1].close>>
                  = <<221, 225, 221, 225>>
             /\ ret[1].tickCount = 2
             /\ ret[2].timestamp = Date(60000)
             /\ <<ret[2].open, ret[2].high, ret[2].low, ret[2].close>>
                  = <<223, 223, 223, 223>>
             /\ ret[2].tickCount = 1

\* the scenario ticks, given out of order, have been aggregated at '1m'
C8_Witness ==
    /\ AggReturned
    /\ timeframe = Tok1m
    /\ before = <<Tick(90000, 222, 224), Tick(30000, 224, 226), Tick(0, 220, 222)>>
    /\ Len(ret) = 2

WellFormedBar(b) ==
    /\ b.low <= Min(b.open, b.close)
    /\ b.high >= Max(b.open, b.close)
    /\ b.tickCount >= 1

\* C9: in aggregateTicksToBars, after every processed tick, the open aggregate and every
\* bar already appended satisfy low <= min(open, close), high >= max(open, close)
\* and tickCount >= 1.
C9_BarsWellFormed ==
    (fn = "aggregateTicksToBars") =>
        /\ currentBar # <<>> => WellFormedBar(currentBar[1])
        /\ \A k \in 1..Len(bars) : WellFormedBar(bars[k])
        /\ (pc = "loop" /\ idx > 1) => currentBar # <<>>

\* mid-loop: one bar appended, and the open aggregate updated by a tick below its open
C9_Witness ==
    /\ pc = "loop"
    /\ fn = "aggregateTicksToBars"
    /\ Len(bars) >= 1
    /\ currentBar # <<>>
    /\ currentBar[1].tickCount >= 2
    /\ currentBar[1].close < currentBar[1].open

RECURSIVE FloatSum(_)
FloatSum(vs) == IF vs = <<>> THEN 0
                ELSE FAdd(FloatSum(SubSeq(vs, 1, Len(vs) - 1)), vs[Len(vs)])

\* (bidVolume + askVolume) / 2 of a tick that has both fields, a value of 0 included
PresentVolumeOf(tick) ==
    IF Has(tick, "bidVolume") /\ Has(tick, "askVolume")
    THEN FDiv(FAdd(tick.bidVolume, tick.askVolume), 2)
    ELSE 0

\* C10: the volume of every bar aggregateTicksToBars returns is the sum of
\* (bidVolume + askVolume) / 2 over the ticks of its bucket that have both fields
\* present, a present value of 0 included; the other ticks contribute zero.
C10_VolumeOfPresentFields ==
    (AggReturned /\ Len(before) > 0) =>
        \A k \in 1..Len(ret) : IsValidDate(ret[k].timestamp) =>
            LET S == BucketTicks(k)
            IN  ret[k].volume = FloatSum([j \in 1..Len(S) |-> PresentVolumeOf(S[j])])

\* C10 with "present" read as the code reads it: both fields present and non-zero
C10_VolumeOfNonZeroFields ==
    (AggReturned /\ Len(before) > 0) =>
        \A k \in 1..Len(ret) : IsValidDate(ret[k].timestamp) =>
            LET S == BucketTicks(k)
            IN  ret[k].volume = FloatSum([j \in 1..Len(S) |-> VolumeOf(S[j])])

(***************************************************************************)
(* The spread of a bar                                                     *)
(***************************************************************************)
\* the recurrence spread_new = (spread_old * (n - 1) + (ask - bid)) / n over the first
\* n ticks of S, in the arithmetic of the code
RECURSIVE RunningSpread(_, _)
RunningSpread(S, n) ==
    IF n = 1 THEN FSub(S[1].ask, S[1].bid)
    ELSE FDiv(FAdd(FMul(RunningSpread(S, n - 1), n - 1), FSub(S[n].ask, S[n].bid)), n)

\* the same recurrence in exact arithmetic
RECURSIVE ExactRunningSpread(_, _)
ExactRunningSpread(S, n) ==
    IF n = 1 THEN QInt(S[1].ask - S[1].bid)
    ELSE QDiv(QAdd(QMul(ExactRunningSpread(S, n - 1), QInt(n - 1)),
                   QInt(S[n].ask - S[n].bid)),
              QInt(n))

\* C11: the spread of every bar aggregateTicksToBars returns is kept by the recurrence
\* spread_new = (spread_old * (n - 1) + (ask - bid)) / n, n the tick count after its
\* increment; in exact arithmetic spread * tickCount is then the sum of ask - bid
\* over the ticks of the bar.
C11_SpreadRunningMean ==
    (AggReturned /\ Len(before) > 0) =>
        /\ \A k \in 1..Len(ret) : IsValidDate(ret[k].timestamp) =>
             LET S == BucketTicks(k)
             IN  /\ ret[k].spread = RunningSpread(S, Len(S))
                 /\ QMul(ExactRunningSpread(S, Len(S)), QInt(ret[k].tickCount))
                      = QInt(ExactSum([j \in 1..Len(S) |-> S[j].ask - S[j].bid]))
        /\ \A k \in 1..Len(ret) : ~IsValidDate(ret[k].timestamp) =>
             LET t == SortByTimestamp(before)[k]
             IN  ret[k].spread = FSub(t.ask, t.bid)

\* a bar of three ticks with spreads 2, 2 and 4 has been returned
C11_Witness ==
    /\ AggReturned
    /\ Len(ret) = 1
    /\ ret[1].tickCount = 3
    /\ ret[1].spread = 3
    /\ ExactRunningSpread(SortByTimestamp(before), 3) = <<8, 3>>

(***************************************************************************)
(* Failure                                                                 *)
(***************************************************************************)
\* C16: when aggregateTicksToBars or resampleBars fails with the invalid-timeframe
\* error, no bars are returned and the caller's array holds the same records in the
\* same order as before the call.
C16_FailureAtomic ==
    (pc = "threw") =>
        /\ ret = <<>>
        /\ bars = <<>>
        /\ input = before

\* the part of C16 the code keeps: nothing is returned alongside the error, the array
\* holds the same records, and aggregateTicksToBars leaves their order alone
C16_NoBarsOnFailure ==
    (pc = "threw") =>
        /\ ret = <<>>
        /\ bars = <<>>
        /\ Len(input) = Len(before)
        /\ \A r \in Range(before) :
             Cardinality({ k \in 1..Len(input) : input[k] = r })
               = Cardinality({ k \in 1..Len(before) : before[k] = r })
        /\ fn = "aggregateTicksToBars" => input = before

(***************************************************************************)
(* The fields of a resampled bar                                           *)
(***************************************************************************)
\* b has the fields of the source bar s alone
SingleSourceBar(b, s) ==
    /\ b.open = s.open
    /\ b.high = s.high
    /\ b.low = s.low
    /\ b.close = s.close
    /\ b.volume = OrDefault(s, "volume", 0)
    /\ b.tickCount = OrDefault(s, "tickCount", 1)

\* C17: every bar resampleBars returns has, over the source bars of its bucket in
\* ascending timestamp order, open = the first open, close = the last close, high =
\* the largest high, low = the smallest low, volume = the sum of the volumes and
\* tickCount = the sum of the tickCounts, a source bar without volume counting 0 and
\* one without tickCount counting 1; it has no spread field.
C17_ResampledBarFields ==
    (ResReturned /\ Len(before) > 0) =>
        /\ \A k \in 1..Len(ret) : ~Has(ret[k], "spread")
        /\ \A k \in 1..Len(ret) : IsValidDate(ret[k].timestamp) =>
             LET S == BucketTicks(k)
             IN  /\ Len(S) >= 1
                 /\ ret[k].open = S[1].open
                 /\ ret[k].close = S[Len(S)].close
                 /\ \A j \in 1..Len(S) : S[j].high <= ret[k].high
                 /\ \E j \in 1..Len(S) : S[j].high = ret[k].high
                 /\ \A j \in 1..Len(S) : S[j].low >= ret[k].low
                 /\ \E j \in 1..Len(S) : S[j].low = ret[k].low
                 /\ ret[k].volume
                      = FloatSum([j \in 1..Len(S) |-> OrDefault(S[j], "volume", 0)])
                 /\ ret[k].tickCount
                      = FloatSum([j \in 1..Len(S) |-> OrDefault(S[j], "tickCount", 1)])
        \* with no valid bucket start every source bar is a bucket of its own
        /\ \A k \in 1..Len(ret) : ~IsValidDate(ret[k].timestamp) =>
             /\ Len(ret) = Len(before)
             /\ SingleSourceBar(ret[k], SortByTimestamp(before)[k])

\* a returned bar merged from several source bars, one of them without volume and
\* tickCount
C17_Witness ==
    /\ ResReturned
    /\ \E k \in 1..Len(ret) :
         /\ IsValidDate(ret[k].timestamp)
         /\ Len(BucketTicks(k)) >= 2
         /\ ret[k].close # BucketTicks(k)[1].close
         /\ \E j \in 1..Len(BucketTicks(k)) :
              /\ ~Has(BucketTicks(k)[j], "volume")
              /\ ~Has(BucketTicks(k)[j], "tickCount")

(***************************************************************************)
(* The order of the input                                                  *)
(***************************************************************************)
Reorderings(s) ==
    LET n == Len(s)
        Bijections == { f \in [1..n -> 1..n] : \A i, j \in 1..n : i # j => f[i] # f[j] }
    IN  { [i \in 1..n |-> s[f[i]]] : f \in Bijections }

DistinctTimestamps(s) ==
    \A i, j \in 1..Len(s) : i # j => s[i].timestamp # s[j].timestamp

\* C18: for ticks with pairwise distinct timestamps, aggregateTicksToBars returns for
\* every permutation of the ticks the same bars, field for field; with equal
\* timestamps the call still runs to its return and the bars are well formed.
C18_OrderIndependent ==
    /\ (AggReturned /\ DistinctTimestamps(before)) =>
         \A p \in Reorderings(before) :
            LET r == aggregateTicksToBars(p, timeframe)
            IN  ~r.threw /\ r.value = ret
    /\ AggReturned => \A k \in 1..Len(ret) : WellFormedBar(ret[k])
    /\ (fn = "aggregateTicksToBars" /\ pc = "loop") =>
         /\ idx \in 1..(Len(input) + 1)
         /\ Len(input) = Len(before)

\* three ticks with distinct timestamps, given out of order, gave several bars
C18_Witness ==
    /\ AggReturned
    /\ Len(before) = 3
    /\ DistinctTimestamps(before)
    /\ before # SortByTimestamp(before)
    /\ Len(ret) >= 2
    /\ \E k \in 1..Len(ret) : ret[k].tickCount >= 2

(***************************************************************************)
(* The open aggregate and the output sequence                              *)
(***************************************************************************)
\* the record the loop reads next belongs to another bucket than the open aggregate
NextRecordOfOtherBucket ==
    /\ idx <= Len(input)
    /\ currentBar # <<>>
    /\ ~TimeEqual(getBarTime(NewDate(input[idx].timestamp), intervalMinutes),
                  currentBar[1].timestamp)

EndOfSequence == idx > Len(input)

\* C19: during aggregateTicksToBars and resampleBars there is at most one open
\* aggregate; a step leaves the output sequence as it is or appends the open aggregate
\* to it, and it appends exactly when the next record belongs to another bucket or
\* the sequence has ended; the bars already appended stay as they are, and the
\* value returned is the output sequence.
C19_AppendOnly ==
    [][ (pc = "loop") =>
          /\ Len(currentBar) <= 1
          /\ Len(currentBar') <= 1
          /\ \/ bars' = bars
             \/ currentBar # <<>> /\ bars' = Append(bars, currentBar[1])
          /\ (bars' # bars) <=>
                (currentBar # <<>> /\ (NextRecordOfOtherBucket \/ EndOfSequence))
          /\ (pc' = "returned") => ret' = bars'
      ]_vars

\* resampleBars in mid-loop: bars appended, an aggregate open, and the next source
\* bar belongs to another bucket
C19_Witness ==
    /\ pc = "loop"
    /\ fn = "resampleBars"
    /\ Len(bars) >= 1
    /\ NextRecordOfOtherBucket
    /\ currentBar[1].tickCount >= 2

(***************************************************************************)
(* The statistics                                                          *)
(***************************************************************************)
StatsReturned == pc = "returned" /\ fn = "calculateTickStatistics"

\* C13: calculateTickStatistics returns null for an empty array and raises no error;
\* for a non-empty array it returns a report, not null, whose tickCount is the
\* length of the array.
C13_NullIffEmpty ==
    /\ fn = "calculateTickStatistics" => pc = "returned"
    /\ StatsReturned =>
         IF Len(before) = 0 THEN ret = <<>>
         ELSE /\ Len(ret) = 1
              /\ ret[1].tickCount = Len(before)

\* a report of several ticks has been returned
C13_Witness ==
    /\ StatsReturned
    /\ Len(before) >= 2
    /\ Len(ret) = 1
    /\ ret[1].tickCount = Len(before)
    /\ NIsFinite(ret[1].returns.mean)

\* null has been returned for the empty array
C13_WitnessEmpty ==
    /\ StatsReturned
    /\ Len(before) = 0
    /\ ret = <<>>

\* the mid price of a tick as a fraction
ExactMid(t) == NDiv(NInt(t.bid + t.ask), NInt(2))

\* C20: calculateTickStatistics goes by the position of the ticks in the array:
\* timeRange.from is the timestamp of the first element and timeRange.to that of the
\* last, the returns are tickCount - 1 in number, the i-th of them computed from the
\* elements i and i + 1 of the array, and the array is left as it was.
C20_InputPosition ==
    /\ (StatsReturned /\ Len(before) > 0) =>
         /\ ret[1].timeRange.from = before[1].timestamp
         /\ ret[1].timeRange.to = before[Len(before)].timestamp
         /\ Len(returns) = ret[1].tickCount - 1
         /\ \A i \in 1..Len(returns) :
              returns[i] = NDiv(NSub(ExactMid(before[i + 1]), ExactMid(before[i])),
                                ExactMid(before[i]))
         /\ ret[1].returns.mean = NDiv(Sum(returns), NInt(Len(returns)))
    /\ fn = "calculateTickStatistics" => input = before

\* a report of ticks that are not in the order of their timestamps: the first is
\* later than the last
C20_Witness ==
    /\ StatsReturned
    /\ Len(before) >= 3
    /\ before[1].timestamp[1] > before[Len(before)].timestamp[1]
    /\ \E i \in 1..Len(returns) : returns[i][1] < 0

AllFinite(m) == \A f \in DOMAIN m : NIsFinite(m[f])

\* C12: calculateTickStatistics fails with InsufficientData when the returns are too
\* few for a moment of the report (no return for a single tick, fewer than 3 for the
\* skewness, fewer than 4 for the kurtosis), and a report it returns holds no NaN and
\* no infinite value; for a single tick the min, max and mean of spread and price
\* are defined and their std is zero.
C12_InsufficientData ==
    /\ (fn = "calculateTickStatistics" /\ Len(before) >= 1 /\ Len(before) - 1 < 4) =>
         pc = "threw"
    /\ (StatsReturned /\ Len(ret) = 1) =>
         /\ AllFinite(ret[1].returns)
         /\ AllFinite(ret[1].spread)
         /\ AllFinite(ret[1].price)

\* the part of C12 the code keeps: the spread and price statistics of a single tick
C12_SingleTickSpreadAndPrice ==
    (StatsReturned /\ Len(before) = 1) =>
        /\ AllFinite(ret[1].spread)
        /\ AllFinite(ret[1].price)
        /\ ret[1].spread.std = NInt(0)
        /\ ret[1].price.std = NInt(0)
        /\ ret[1].spread.min = NInt(before[1].ask - before[1].bid)
        /\ ret[1].price.mean = ExactMid(before[1])

\* what the code returns where C12 has it fail
C12_ReturnsNaN ==
    (StatsReturned /\ Len(before) >= 1) =>
        /\ Len(returns) = 0 => /\ NIsNaN(ret[1].returns.mean)
                               /\ NIsNaN(ret[1].returns.std)
                               /\ NIsFinite(ret[1].returns.skew)
                               /\ NIsFinite(ret[1].returns.kurtosis)
        /\ Len(returns) \in {1, 2} => /\ NIsNaN(ret[1].returns.skew)
                                      /\ NIsNaN(ret[1].returns.kurtosis)
        /\ Len(returns) = 3 => NIsNaN(ret[1].returns.kurtosis)

\* C15: calculateTickStatistics returns for an array the report it returns for the
\* array as the caller built it, whether or not aggregateTicksToBars was called on
\* the array in between.
C15_CallsIndependent ==
    StatsReturned => ret = calculateTickStatistics(original).value

\* the part of C15 the code keeps: the report is that of the array as it is now
C15_SameOrderSameReport ==
    StatsReturned => ret = calculateTickStatistics(before).value

(***************************************************************************)
(* fetchTickData                                                           *)
(***************************************************************************)
FetchSettled == fetch.pc \in {"resolved", "rejected"}

\* the provider returned data and the file write would succeed
ProviderAndWriteOk == FetchSettled /\ fetch.rates[1].ok /\ fetch.writeOk[1]

\* C14: when the provider returns data and the file write succeeds, fetchTickData
\* resolves with success = true, dataPoints = the number of records the provider
\* returned, a filename, and data = the processed records for format 'json' and null
\* otherwise; it rejects only when the fetch or the file write fails.
C14_ResolvesWithResult ==
    /\ ProviderAndWriteOk =>
         /\ fetch.pc = "resolved"
         /\ Len(fetch.result) = 1
         /\ fetch.result[1].success
         /\ fetch.result[1].dataPoints = Len(fetch.rates[1].data)
         /\ fetch.result[1].filename # <<>>
         /\ fetch.result[1].data
              = IF WithDefaults(fetch.options[1]).format = "json"
                THEN <<fetch.processedData>> ELSE <<>>
    /\ fetch.pc = "rejected" => (~fetch.rates[1].ok \/ ~fetch.writeOk[1])

\* what the code does instead: every call rejects, with the TypeError of saveData
\* when the provider returned data
C14_AlwaysRejects ==
    FetchSettled =>
        /\ fetch.pc = "rejected"
        /\ fetch.result = <<>>
        /\ fetch.error = IF fetch.rates[1].ok THEN TypeError ELSE FetchError

(***************************************************************************)
(* calculateKurtosis                                                       *)
(***************************************************************************)
KurtosisReturned == pc = "returned" /\ fn = "calculateKurtosis"

\* mean and population variance of a series: the squared deviations divided by n
MeanOf(xs) == NDiv(Sum(xs), NInt(Len(xs)))
PopulationVariance(xs) ==
    NDiv(Sum([i \in 1..Len(xs) |-> NMul(NSub(xs[i], MeanOf(xs)), NSub(xs[i], MeanOf(xs)))]),
         NInt(Len(xs)))

\* (n(n+1) / ((n-1)(n-2)(n-3))) * sum(((x-mean)/std)^4) - 3(n-1)^2 / ((n-2)(n-3))
ExcessKurtosis(xs) ==
    LET n   == Len(xs)
        std == MathSqrt(PopulationVariance(xs))
        z4  == [i \in 1..n |-> MathPow(NDiv(NSub(xs[i], MeanOf(xs)), std), 4)]
    IN  NSub(NMul(Num(<<n * (n + 1), (n - 1) * (n - 2) * (n - 3)>>), Sum(z4)),
             Num(<<3 * (n - 1) * (n - 1), (n - 2) * (n - 3)>>))

KurtosisCase ==
    /\ KurtosisReturned
    /\ Len(returns) >= 4
    /\ ~NIsZero(PopulationVariance(returns))

\* C21: for a series of n >= 4 values with non-zero variance calculateKurtosis
\* returns (n(n+1) / ((n-1)(n-2)(n-3))) * sum(((x-mean)/std)^4) - 3(n-1)^2 / ((n-2)(n-3)),
\* std being the population standard deviation, and subtracts nothing further.
C21_KurtosisFormula ==
    KurtosisCase => ret[1] = ExcessKurtosis(returns)

\* what the code returns instead: that value less 3; and calculateStdDev is the
\* population standard deviation
C21_FormulaLessThree ==
    /\ KurtosisCase => ret[1] = NSub(ExcessKurtosis(returns), NInt(3))
    /\ (pc = "returned" /\ fn = "calculateStdDev" /\ Len(returns) >= 1) =>
         ret[1] = MathSqrt(PopulationVariance(returns))

(***************************************************************************)
(* The interval of an accepted token                                       *)
(***************************************************************************)
\* the minutes of one unit of the token
UnitMinutes(tok) == CASE tok[Len(tok)] = "m" -> 1
                      [] tok[Len(tok)] = "h" -> 60
                      [] tok[Len(tok)] = "d" -> 1440

\* the decimal count in front of the unit
CountOf(tok) == parseInt(SubSeq(tok, 1, Len(tok) - 1))

\* the token of the call in progress has been accepted and parsed
TokenAccepted == pc = "loop"

AllTimestampsValid(bs) == \A k \in 1..Len(bs) : IsValidDate(bs[k].timestamp)

\* C22: for every token parseTimeframe accepts the interval is count x 1 (m),
\* count x 60 (h) or count x 1440 (d) minutes and is at least 1, so that the bucket
\* width of getBarTime is never zero and every bar timestamp is a valid instant
\* (the records given carrying valid instants).
C22_IntervalAtLeastOne ==
    /\ TokenAccepted =>
         /\ intervalMinutes = CountOf(timeframe) * UnitMinutes(timeframe)
         /\ intervalMinutes >= 1
         /\ AllTimestampsValid(before) =>
              (/\ AllTimestampsValid(bars)
               /\ (currentBar # <<>>) => IsValidDate(currentBar[1].timestamp))
    /\ ((AggReturned \/ ResReturned) /\ AllTimestampsValid(before)) =>
         AllTimestampsValid(ret)

\* the part of C22 the code keeps: the interval is count x unit, and every bar
\* timestamp is a valid instant when the count is not zero
C22_IntervalIsCountTimesUnit ==
    /\ TokenAccepted =>
         /\ intervalMinutes = CountOf(timeframe) * UnitMinutes(timeframe)
         /\ intervalMinutes >= 0
         /\ (CountOf(timeframe) >= 1 /\ AllTimestampsValid(before)) =>
              (/\ intervalMinutes >= 1
               /\ AllTimestampsValid(bars)
               /\ (currentBar # <<>>) => IsValidDate(currentBar[1].timestamp))
    /\ ((AggReturned \/ ResReturned) /\ Len(before) > 0 /\ CountOf(timeframe) >= 1
            /\ AllTimestampsValid(before)) =>
         AllTimestampsValid(ret)

(***************************************************************************)
(* Conservation of records                                                 *)
(***************************************************************************)
\* the sum over the records of bs of the field f, a record without it counting dflt
SumOf(bs, f, dflt) ==
    ExactSum([k \in 1..Len(bs) |-> IF Has(bs[k], f) THEN bs[k][f] ELSE dflt])

\* C23: the tickCount of the bars aggregateTicksToBars returns add up to the number
\* of ticks given; the tickCount of the bars resampleBars returns add up to the
\* tickCount of the source bars (a source bar without tickCount counting 1) and
\* their volume to the volume of the source bars.
C23_Conservation ==
    /\ AggReturned => SumOf(ret, "tickCount", 0) = Len(before)
    /\ ResReturned =>
         /\ SumOf(ret, "tickCount", 0) = SumOf(before, "tickCount", 1)
         /\ SumOf(ret, "volume", 0) = SumOf(before, "volume", 0)

\* the volumes of the source bars of every bucket add up without any rounding
VolumesAddExactly ==
    \A k \in 1..Len(ret) :
        SumOf(TicksOfBucket(before, CallMinutes, ret[k].timestamp), "volume", 0)
            <= Pow2(MantBits)

\* C23 as amended: the tick counts are conserved; the volume is conserved whenever
\* the volumes of each bucket add up without rounding.
C23_ConservationUpToRounding ==
    /\ AggReturned => SumOf(ret, "tickCount", 0) = Len(before)
    /\ ResReturned =>
         /\ SumOf(ret, "tickCount", 0) = SumOf(before, "tickCount", 1)
         /\ VolumesAddExactly => SumOf(ret, "volume", 0) = SumOf(before, "volume", 0)

\* resampleBars has merged several source bars, one of them without tickCount, into
\* fewer bars of a positive volume
C23_Witness ==
    /\ ResReturned
    /\ Len(before) >= 2
    /\ Len(ret) < Len(before)
    /\ \E k \in 1..Len(before) : ~Has(before[k], "tickCount")
    /\ SumOf(ret, "volume", 0) > 0
    /\ SumOf(ret, "tickCount", 0) > Len(before)

(***************************************************************************)
(* fetchMultipleInstruments                                                *)
(***************************************************************************)
MultiReturned == multi.pc = "returned"

\* the result recorded for the k-th instrument is that of the k-th fetch awaited:
\* the value it resolved with, or {success: false, instrument, error}
ResultOfFetch(k) ==
    IF multi.fetches[k].pc = "resolved"
    THEN multi.results[k] = multi.fetches[k].result[1]
    ELSE /\ DOMAIN multi.results[k] = {"success", "instrument", "error"}
         /\ multi.results[k].success = FALSE
         /\ multi.results[k].instrument = multi.instruments[k]
         /\ multi.results[k].error = multi.fetches[k].error

\* C24: fetchMultipleInstruments fetches the instruments one after the other and
\* returns one result per instrument, in the order of the request: a failed fetch is
\* recorded as {success: false, instrument, error} and neither aborts the call nor
\* skips an instrument, and no fetch begins before the one before it has settled.
C24_SequentialOneResultEach ==
    /\ multi.pc \in {"idle", "awaitFetch", "delay", "returned"}
    \* the fetches begin in the order of the request, one at a time
    /\ multi.started = SubSeq(multi.instruments, 1, Len(multi.started))
    /\ Len(multi.started) <= Len(multi.fetches) + 1
    /\ fetch.pc = "pending" =>
         /\ multi.pc = "awaitFetch"
         /\ Len(multi.started) = Len(multi.fetches) + 1
         /\ WithDefaults(fetch.options[1]).instrument = multi.instruments[multi.idx]
    \* one result per fetch awaited
    /\ Len(multi.results) = Len(multi.fetches)
    /\ \A k \in 1..Len(multi.results) : ResultOfFetch(k)
    /\ MultiReturned =>
         /\ Len(multi.results) = Len(multi.instruments)
         /\ multi.started = multi.instruments
         /\ \A k \in 1..Len(multi.results) :
              multi.results[k].instrument = multi.instruments[k]

\* a call for three instruments has returned three results, the first fetch having
\* failed at the provider
C24_Witness ==
    /\ MultiReturned
    /\ Len(multi.instruments) = 3
    /\ Len(multi.results) = 3
    /\ multi.results[1] = FailureRecord(multi.instruments[1], FetchError)
    /\ multi.results[3].instrument = multi.instruments[3]
    /\ multi.instruments[1] # multi.instruments[2]

(***************************************************************************)
(* The timeframe 'tick'                                                    *)
(***************************************************************************)
TickToken == <<"t", "i", "c", "k">>

TickFields == {"timestamp", "bid", "ask", "bidVolume", "askVolume"}
BarFields == {"timestamp", "open", "high", "low", "close", "volume"}

\* the provider has answered the call with records
FetchProcessed == FetchSettled /\ fetch.rates[1].ok

RequestedTimeframe == WithDefaults(fetch.options[1]).timeframe

\* the record p is the raw tick r: the same instant, bid and ask, and the volumes r
\* carries (null for a volume that is missing or 0)
RawTick(p, r) ==
    /\ DOMAIN p = TickFields
    /\ p.timestamp = Date(r.timestamp)
    /\ p.bid = r.bid
    /\ p.ask = r.ask
    /\ p.bidVolume = IF Has(r, "bidVolume") /\ r.bidVolume # 0 THEN <<r.bidVolume>> ELSE <<>>
    /\ p.askVolume = IF Has(r, "askVolume") /\ r.askVolume # 0 THEN <<r.askVolume>> ELSE <<>>

\* C25: 'tick' is not a token of the <int><unit> grammar and parseTimeframe never
\* gives it an interval; when 'tick' is the timeframe asked for, the records come
\* through as raw ticks (timestamp, bid, ask, bidVolume, askVolume), one for one and
\* not aggregated, and for every other timeframe they are bar-shaped records.
C25_TickIsNotAnInterval ==
    /\ ~MatchesGrammar(TickToken)
    /\ parseTimeframe(TickToken).threw
    /\ fetch.pc # "idle" => fetch.request[1].timeframe = RequestedTimeframe
    /\ FetchProcessed =>
         LET raw == fetch.rates[1].data
             out == fetch.processedData
         IN  /\ Len(out) = Len(raw)
             /\ IF RequestedTimeframe = "tick"
                THEN \A k \in 1..Len(out) : RawTick(out[k], raw[k])
                ELSE \A k \in 1..Len(out) :
                        /\ DOMAIN out[k] = BarFields
                        /\ out[k].timestamp = Date(raw[k].timestamp)
                        /\ out[k].open = raw[k].open
                        /\ out[k].close = raw[k].close

\* two ticks asked for as 'tick' have come through as two raw ticks
C25_Witness ==
    /\ FetchProcessed
    /\ RequestedTimeframe = "tick"
    /\ Len(fetch.processedData) = 2
    /\ fetch.processedData[1].timestamp # fetch.processedData[2].timestamp
    /\ fetch.processedData[1].bidVolume # <<>>

====
